---- MODULE Spec2Model ----
(***************************************************************************)
(* A model of the emrakul task scheduler (src/emrakul/swarm.py): the Swarm *)
(* object, its Task objects, and the asyncio worker coroutines that pull   *)
(* tasks from the priority queues and execute them.                        *)
(*                                                                         *)
(* Task objects are mutable and shared by reference (the queues, the two   *)
(* tables and a worker's local variable can all name the same object), so  *)
(* the model keeps a heap of task records and stores object numbers        *)
(* everywhere else.  asyncio runs one coroutine at a time and switches     *)
(* only at an await that really suspends, so one action of the model is    *)
(* one run of a coroutine from a suspension point to the next.             *)
(***************************************************************************)
EXTENDS Integers, Sequences, FiniteSets, TLC

VARIABLES
    heap,            \* the Task objects ever created, by object number
    queues,          \* Swarm.queues: priority -> list of objects
    tasks,           \* Swarm.tasks: ordered dict id -> object
    tasks_by_name,   \* Swarm.tasks_by_name: ordered dict name -> object
    running,         \* Swarm.running
    workers,         \* Swarm.workers: the live worker coroutines
    max_concurrent,  \* Swarm.max_concurrent
    hist,            \* history, per object: what the environment did to it
    stopped,         \* history: stop() has returned and start() was not called since
    ret              \* the last boundary call and what it returned

vars == <<heap, queues, tasks, tasks_by_name, running, workers,
          max_concurrent, hist, stopped, ret>>

-----------------------------------------------------------------------------
(* Bounds of the model. *)

MaxTasks == 2
MaxWorkers == 2
MaxBatch == 2
MaxFileTasks == 3
MaxFileBatch == 3

-----------------------------------------------------------------------------
(* Python values. *)

\* None, and an Optional that is set.
None == <<>>
Some(x) == <<x>>

\* Python truthiness of an Optional[str]: None and "" are falsy.
Truthy(opt) == opt # None /\ opt[1] # ""

\* An insertion-ordered dict as a sequence of <<key, value>> pairs.
DictHas(d, k) == \E i \in 1..Len(d) : d[i][1] = k

\* dict.get(k): the value, or 0 for None (values are object numbers >= 1).
DictGet(d, k) ==
    IF DictHas(d, k) THEN d[CHOOSE i \in 1..Len(d) : d[i][1] = k][2] ELSE 0

\* d[k] = v: an existing key keeps its place, a new key goes last.
DictSet(d, k, v) ==
    IF DictHas(d, k)
    THEN [i \in 1..Len(d) |-> IF d[i][1] = k THEN <<k, v>> ELSE d[i]]
    ELSE Append(d, <<k, v>>)

\* list(d.values()), in iteration order.
DictValues(d) == [i \in 1..Len(d) |-> d[i][2]]

\* list.pop(i) for a 1-based position i.
Pop(q, i) == SubSeq(q, 1, i - 1) \o SubSeq(q, i + 1, Len(q))

-----------------------------------------------------------------------------
(* Priority, TaskStatus, Task. *)

\* The members of the Priority enum in definition order, by value.
Priority == <<0, 1, 2, 3>>
PriorityNames == <<"P0", "P1", "P2", "P3">>

\* str.upper() on the priority strings a declaration can carry.
Upper(s) ==
    CASE s = "p0" -> "P0" [] s = "p1" -> "P1" [] s = "p2" -> "P2"
      [] s = "p3" -> "P3" [] OTHER -> s

\* Priority.from_str raises KeyError for a name that is no member.
from_str_raises(s) == \A i \in 1..4 : PriorityNames[i] # Upper(s)
from_str(s) == Priority[CHOOSE i \in 1..4 : PriorityNames[i] = Upper(s)]

PENDING == "pending"
IN_PROGRESS == "in_progress"
COMPLETED == "completed"
FAILED == "failed"

DefaultMaxRetries == 3

\* A prompt is <<its first 100 characters, the rest>>; prompt[:100].
Prefix100(prompt) == prompt[1]

\* hashlib.sha256(x).hexdigest()[:12], taken to be injective.
Sha12(x) == <<"sha256", x>>

\* d.get(key, default) on a declaration (a record with optional fields).
Get(d, key, default) == IF key \in DOMAIN d THEN d[key] ELSE default

\* Task.from_dict raises KeyError when name or prompt is missing, or when the
\* priority is no member of the enum.
from_dict_raises(d) ==
    \/ "name" \notin DOMAIN d
    \/ "prompt" \notin DOMAIN d
    \/ from_str_raises(Get(d, "priority", "P2"))

from_dict(d) ==
    [ id            |-> Sha12(d.name \o ":" \o Prefix100(d.prompt)),
      name          |-> d.name,
      prompt        |-> d.prompt,
      backend       |-> Get(d, "backend", "cursor"),
      priority      |-> from_str(Get(d, "priority", "P2")),
      device        |-> Get(d, "device", "local"),
      verify        |-> Get(d, "verify", None),
      dependencies  |-> Get(d, "dependencies", <<>>),
      status        |-> PENDING,
      retries       |-> 0,
      max_retries   |-> DefaultMaxRetries,
      result        |-> None,
      error         |-> None,
      started_at    |-> None,
      completed_at  |-> None ]

\* datetime.now(): a timestamp; the model keeps only that it is set.
Now == Some("now")

-----------------------------------------------------------------------------
(* The Swarm.  Operators take the whole state as a record sw and return    *)
(* the state after the call.                                               *)

Self ==
    [ heap |-> heap, queues |-> queues, tasks |-> tasks,
      tasks_by_name |-> tasks_by_name, running |-> running,
      workers |-> workers, max_concurrent |-> max_concurrent, hist |-> hist,
      stopped |-> stopped ]

Becomes(sw) ==
    /\ heap' = sw.heap
    /\ queues' = sw.queues
    /\ tasks' = sw.tasks
    /\ tasks_by_name' = sw.tasks_by_name
    /\ running' = sw.running
    /\ workers' = sw.workers
    /\ max_concurrent' = sw.max_concurrent
    /\ hist' = sw.hist
    /\ stopped' = sw.stopped

\* Swarm.__init__
EmptyQueues == [p \in 0..3 |-> <<>>]

NewSwarm ==
    [ heap |-> <<>>, queues |-> EmptyQueues, tasks |-> <<>>,
      tasks_by_name |-> <<>>, running |-> FALSE, workers |-> <<>>,
      max_concurrent |-> 10, hist |-> <<>>, stopped |-> FALSE ]

NoHistory == [dispatches |-> 0, fails |-> 0, oks |-> 0]

\* add_task that keeps the first task of a name in the name table.
add_task_keeping_first_name(sw, task) ==
    LET o == Len(sw.heap) + 1 IN
    [sw EXCEPT
        !.heap = Append(@, task),
        !.hist = Append(@, NoHistory),
        !.tasks = DictSet(@, task.id, o),
        !.tasks_by_name = IF DictHas(@, task.name) THEN @ ELSE DictSet(@, task.name, o),
        !.queues[task.priority] = Append(@, o)]

\* add_task taking back, for a task of higher priority, the tasks in progress
\* of a lower one: they are set PENDING and queued again.
add_task_preempting(sw, task) ==
    LET o == Len(sw.heap) + 1
        preempted(x) == sw.heap[x].status = IN_PROGRESS /\ sw.heap[x].priority > task.priority
    IN
    [sw EXCEPT
        !.heap = Append([x \in 1..Len(sw.heap) |->
                            IF preempted(x) THEN [sw.heap[x] EXCEPT !.status = PENDING]
                            ELSE sw.heap[x]], task),
        !.hist = Append(@, NoHistory),
        !.tasks = DictSet(@, task.id, o),
        !.tasks_by_name = DictSet(@, task.name, o),
        !.queues = [p \in 0..3 |->
                      LET q == @[p] \o SelectSeq([x \in 1..Len(sw.heap) |-> x],
                                       LAMBDA x : preempted(x) /\ sw.heap[x].priority = p)
                      IN  IF p = task.priority THEN Append(q, o) ELSE q]]

\* Swarm.add_task, for a Task object just created by from_dict.
add_task(sw, task) ==
    LET o == Len(sw.heap) + 1 IN
    [sw EXCEPT
        !.heap = Append(@, task),
        !.hist = Append(@, NoHistory),
        !.tasks = DictSet(@, task.id, o),
        !.tasks_by_name = DictSet(@, task.name, o),
        !.queues[task.priority] = Append(@, o)]

\* Swarm.add_tasks_from_string on the parsed declarations: the loop stops at
\* the first declaration from_dict raises on, and what was added stays.
RECURSIVE add_tasks(_, _)
add_tasks(sw, batch) ==
    IF batch = <<>> \/ from_dict_raises(Head(batch))
    THEN sw
    ELSE add_tasks(add_task(sw, from_dict(Head(batch))), Tail(batch))

\* How many Task objects add_tasks creates for a batch.
RECURSIVE Created(_)
Created(batch) ==
    IF batch = <<>> \/ from_dict_raises(Head(batch))
    THEN 0
    ELSE 1 + Created(Tail(batch))

\* _deps_satisfied comparing the status with the member's name, a string no
\* status of the model equals.
_deps_satisfied_comparing_names(sw, o) ==
    \A k \in 1..Len(sw.heap[o].dependencies) :
        LET dep == DictGet(sw.tasks_by_name, sw.heap[o].dependencies[k]) IN
        ~(dep = 0 \/ sw.heap[dep].status # "COMPLETED")

\* _deps_satisfied taking a dependency that has finished, COMPLETED or
\* FAILED, as satisfied.
_deps_satisfied_when_finished(sw, o) ==
    \A k \in 1..Len(sw.heap[o].dependencies) :
        LET dep == DictGet(sw.tasks_by_name, sw.heap[o].dependencies[k]) IN
        ~(dep = 0 \/ sw.heap[dep].status \notin {COMPLETED, FAILED})

\* _deps_satisfied treating a missing dependency as satisfied.
_deps_satisfied_skipping_missing(sw, o) ==
    \A k \in 1..Len(sw.heap[o].dependencies) :
        LET dep == DictGet(sw.tasks_by_name, sw.heap[o].dependencies[k]) IN
        ~(dep # 0 /\ sw.heap[dep].status # COMPLETED)

\* _deps_satisfied accepting any COMPLETED task of the id table that bears
\* the name of the dependency.
_deps_satisfied_by_any_of_name(sw, o) ==
    \A k \in 1..Len(sw.heap[o].dependencies) :
        \E i \in 1..Len(sw.tasks) :
            /\ sw.heap[sw.tasks[i][2]].name = sw.heap[o].dependencies[k]
            /\ sw.heap[sw.tasks[i][2]].status = COMPLETED

\* Swarm._deps_satisfied
_deps_satisfied(sw, o) ==
    \A k \in 1..Len(sw.heap[o].dependencies) :
        LET dep == DictGet(sw.tasks_by_name, sw.heap[o].dependencies[k]) IN
        ~(dep = 0 \/ sw.heap[dep].status # COMPLETED)

\* Candidates without the dependency test.
CandidatesIgnoringDependencies(sw) ==
    { c \in UNION {{<<k, i>> : i \in 1..Len(sw.queues[Priority[k]])} : k \in 1..4} :
        sw.heap[sw.queues[Priority[c[1]]][c[2]]].status = PENDING }

\* Candidates looking at the head of each queue only.
CandidatesAtHeadOnly(sw) ==
    { c \in UNION {{<<k, i>> : i \in 1..Len(sw.queues[Priority[k]])} : k \in 1..4} :
        /\ c[2] = 1
        /\ sw.heap[sw.queues[Priority[c[1]]][c[2]]].status = PENDING
        /\ _deps_satisfied(sw, sw.queues[Priority[c[1]]][c[2]]) }

\* The places get_next_task would stop at, as <<k, i>>: position i of the
\* queue of the k-th priority of the enum.
Candidates(sw) ==
    { c \in UNION {{<<k, i>> : i \in 1..Len(sw.queues[Priority[k]])} : k \in 1..4} :
        /\ sw.heap[sw.queues[Priority[c[1]]][c[2]]].status = PENDING
        /\ _deps_satisfied(sw, sw.queues[Priority[c[1]]][c[2]]) }

\* FirstPlace scanning the queues from the lowest priority up.
FirstPlaceLowestFirst(C) ==
    CHOOSE c \in C : \A e \in C : c[1] > e[1] \/ (c[1] = e[1] /\ c[2] <= e[2])

\* FirstPlace taking the newest entry of the queue it stops in.
FirstPlaceNewestFirst(C) ==
    CHOOSE c \in C : \A e \in C : c[1] < e[1] \/ (c[1] = e[1] /\ c[2] >= e[2])

\* The first place of a set of places, in scan order.
FirstPlace(C) ==
    CHOOSE c \in C : \A e \in C : c[1] < e[1] \/ (c[1] = e[1] /\ c[2] <= e[2])

\* get_next_task that does not claim what it returns: no status test, and
\* the task stays in its queue.
get_next_task_unclaimed(sw) ==
    LET C == { c \in UNION {{<<k, i>> : i \in 1..Len(sw.queues[Priority[k]])} : k \in 1..4} :
                 /\ sw.heap[sw.queues[Priority[c[1]]][c[2]]].status \in {PENDING, IN_PROGRESS}
                 /\ _deps_satisfied(sw, sw.queues[Priority[c[1]]][c[2]]) }
    IN IF C = {}
       THEN [task |-> 0, queues |-> sw.queues]
       ELSE [task |-> sw.queues[Priority[FirstPlace(C)[1]]][FirstPlace(C)[2]],
             queues |-> sw.queues]

\* Swarm.get_next_task: the object returned (0 for None) and the queues
\* after the call.
get_next_task(sw) ==
    LET C == Candidates(sw) IN
    IF C = {}
    THEN [task |-> 0, queues |-> sw.queues]
    ELSE LET c == FirstPlace(C)
             p == Priority[c[1]]
         IN [ task |-> sw.queues[p][c[2]],
              queues |-> [sw.queues EXCEPT ![p] = Pop(@, c[2])] ]

-----------------------------------------------------------------------------
(* Swarm.execute_task, cut at its awaits. *)

\* The routing with a fallback chain: a name it does not know goes to the
\* default adapter.
BackendsWithFallback == {"codex", "kimi", "cursor", "opencode", "unknown-backend"}

Backends == {"codex", "kimi", "cursor", "opencode"}

\* The timeouts table of execute_task with its .get default; 0 is None.
timeouts(backend) ==
    CASE backend = "cursor" -> 0
      [] backend = "codex" -> 600
      [] backend = "kimi" -> 300
      [] backend = "opencode" -> 180
      [] OTHER -> 600

\* The message of run_<backend> when shutil.which finds no CLI.
NotFoundMessage(backend) ==
    CASE backend = "codex" -> "Codex CLI not found"
      [] backend = "kimi" -> "Kimi CLI not found"
      [] backend = "opencode" -> "OpenCode CLI not found"
      [] OTHER -> "Cursor CLI not found"

WorkerResult(success, output, error, backend) ==
    [ raised |-> FALSE, success |-> success, output |-> output,
      error |-> error, backend |-> backend, msg |-> "" ]

\* What `await run_<backend>(...)` can produce, by the kind of outcome:
\* a WorkerResult of _run_command or of the CLI lookup, or an exception.
AdapterResult(kind, task) ==
    CASE kind = "ok" -> WorkerResult(TRUE, "out", None, task.backend)
      [] kind = "failed" -> WorkerResult(FALSE, "out", Some("stderr"), task.backend)
      [] kind = "silent" -> WorkerResult(FALSE, "out", Some(""), task.backend)
      [] kind = "timeout" ->
            WorkerResult(FALSE, "",
                Some("Timeout after " \o ToString(timeouts(task.backend))
                                      \o "s - process killed"),
                task.backend)
      [] kind = "not_found" ->
            WorkerResult(FALSE, "", Some(NotFoundMessage(task.backend)), task.backend)
      [] OTHER ->
            [ raised |-> TRUE, success |-> FALSE, output |-> "", error |-> None,
              backend |-> task.backend, msg |-> "exc" ]

\* A timeout needs a bound (cursor has none); the CLI lookup is local only.
Possible(kind, task) ==
    /\ kind = "timeout" => timeouts(task.backend) # 0
    /\ kind = "not_found" => task.device = "local"

\* History: one more of `what` for object o.
Note(sw, o, what) == [sw EXCEPT !.hist[o][what] = @ + 1]

\* execute_task up to the routing: lines 160-161.
begin_task(sw, o) ==
    [sw EXCEPT !.heap[o].status = IN_PROGRESS, !.heap[o].started_at = Now]

\* complete_task counting the successful attempt in retries as well.
complete_task_counting(sw, o, result) ==
    [sw EXCEPT
        !.heap[o].status = COMPLETED,
        !.heap[o].retries = @ + 1,
        !.heap[o].result = Some([output |-> result.output, backend |-> result.backend]),
        !.heap[o].completed_at = Now]

\* execute_task's success path: lines 200-202.
complete_task(sw, o, result) ==
    [sw EXCEPT
        !.heap[o].status = COMPLETED,
        !.heap[o].result = Some([output |-> result.output, backend |-> result.backend]),
        !.heap[o].completed_at = Now]

\* The retry decision with <= for <.
may_retry_inclusive(task) == task.retries <= task.max_retries

\* The retry decision of the except block: line 208.
may_retry(task) == task.retries < task.max_retries

\* handle_failure recording the message of the first failure only.
handle_failure_keeping_first_error(sw, o, message) ==
    LET s1 == [sw EXCEPT !.heap[o].error = IF @ = None THEN Some(message) ELSE @,
                         !.heap[o].retries = @ + 1]
    IN IF may_retry(s1.heap[o])
       THEN [s1 EXCEPT !.heap[o].status = PENDING,
                       !.queues[s1.heap[o].priority] = Append(@, o)]
       ELSE [s1 EXCEPT !.heap[o].status = FAILED,
                       !.heap[o].completed_at = Now]

\* handle_failure putting the retried task at the front of its queue.
handle_failure_requeue_front(sw, o, message) ==
    LET s1 == [sw EXCEPT !.heap[o].error = Some(message),
                         !.heap[o].retries = @ + 1]
    IN IF may_retry(s1.heap[o])
       THEN [s1 EXCEPT !.heap[o].status = PENDING,
                       !.queues[s1.heap[o].priority] = <<o>> \o @]
       ELSE [s1 EXCEPT !.heap[o].status = FAILED,
                       !.heap[o].completed_at = Now]

\* handle_failure queueing the task again whatever its retries, also when it
\* sets it FAILED.
handle_failure_queueing_failed(sw, o, message) ==
    LET s1 == [sw EXCEPT !.heap[o].error = Some(message),
                         !.heap[o].retries = @ + 1,
                         !.queues[sw.heap[o].priority] = Append(@, o)]
    IN IF may_retry(s1.heap[o])
       THEN [s1 EXCEPT !.heap[o].status = PENDING]
       ELSE [s1 EXCEPT !.heap[o].status = FAILED,
                       !.heap[o].completed_at = Now]

\* handle_failure testing the budget before it counts the attempt.
handle_failure_testing_before_counting(sw, o, message) ==
    LET s1 == [sw EXCEPT !.heap[o].error = Some(message),
                         !.heap[o].retries = @ + 1]
    IN IF may_retry(sw.heap[o])
       THEN [s1 EXCEPT !.heap[o].status = PENDING,
                       !.queues[s1.heap[o].priority] = Append(@, o)]
       ELSE [s1 EXCEPT !.heap[o].status = FAILED,
                       !.heap[o].completed_at = Now]

\* handle_failure setting completed_at at every failure, retried or not.
handle_failure_stamping_each_failure(sw, o, message) ==
    LET s1 == [sw EXCEPT !.heap[o].error = Some(message),
                         !.heap[o].retries = @ + 1,
                         !.heap[o].completed_at = Now]
    IN IF may_retry(s1.heap[o])
       THEN [s1 EXCEPT !.heap[o].status = PENDING,
                       !.queues[s1.heap[o].priority] = Append(@, o)]
       ELSE [s1 EXCEPT !.heap[o].status = FAILED]

\* execute_task's except block: lines 204-214.
handle_failure(sw, o, message) ==
    LET s1 == [sw EXCEPT !.heap[o].error = Some(message),
                         !.heap[o].retries = @ + 1]
    IN IF may_retry(s1.heap[o])
       THEN [s1 EXCEPT !.heap[o].status = PENDING,
                       !.queues[s1.heap[o].priority] = Append(@, o)]
       ELSE [s1 EXCEPT !.heap[o].status = FAILED,
                       !.heap[o].completed_at = Now]

\* Worker w suspended at pc, holding object o (0: none) and the adapter's
\* result (while verifying).
At(sw, w, pc, o, result) ==
    [sw EXCEPT !.workers[w] = [pc |-> pc, task |-> o, result |-> result]]

RECURSIVE _worker_loop(_, _, _)
RECURSIVE after_adapter(_, _, _, _, _)

\* Swarm._worker_loop from the head of its while loop to the next
\* suspension: every state the worker can suspend in.  env.immediate are the
\* adapter outcomes that arrive without a suspension.
_worker_loop(sw, w, env) ==
    IF ~sw.running
    THEN {At(sw, w, "done", 0, None)}
    ELSE
      LET next == get_next_task(sw) IN
      IF next.task = 0
      THEN {At(sw, w, "loop", 0, None)}
      ELSE
        LET o == next.task
            s1 == begin_task(Note([sw EXCEPT !.queues = next.queues],
                                  o, "dispatches"), o)
            task == s1.heap[o]
        IN IF task.backend \notin Backends
           THEN _worker_loop(
                    handle_failure(Note(s1, o, "fails"), o,
                                   "Unknown backend: " \o task.backend),
                    w, env)
           ELSE {At(s1, w, "exec", o, None)}
                \cup UNION { after_adapter(s1, w, o, AdapterResult(k, task), env) :
                             k \in {k \in env.immediate : Possible(k, task)} }

\* after_adapter that leaves the judgement to the verification when there
\* is one, without looking at result.success.
after_adapter_trusting_verify(sw, w, o, res, env) ==
    IF res.raised
    THEN _worker_loop(handle_failure(Note(sw, o, "fails"), o, res.msg), w, env)
    ELSE IF Truthy(sw.heap[o].verify)
    THEN {At(sw, w, "verify", o, Some(res))}
    ELSE IF ~res.success
    THEN _worker_loop(
            handle_failure(Note(sw, o, "fails"), o,
                IF Truthy(res.error) THEN res.error[1] ELSE "Task execution failed"),
            w, env)
    ELSE _worker_loop(complete_task(Note(sw, o, "oks"), o, res), w, env)

\* after_adapter with an except clause too narrow for what the adapter
\* raises: the exception ends the worker.
after_adapter_escaping(sw, w, o, res, env) ==
    IF res.raised
    THEN {At(sw, w, "done", o, None)}
    ELSE IF ~res.success
    THEN _worker_loop(
            handle_failure(Note(sw, o, "fails"), o,
                IF Truthy(res.error) THEN res.error[1] ELSE "Task execution failed"),
            w, env)
    ELSE IF Truthy(sw.heap[o].verify)
    THEN {At(sw, w, "verify", o, Some(res))}
    ELSE _worker_loop(complete_task(Note(sw, o, "oks"), o, res), w, env)

\* after_adapter marking the task COMPLETED before its verification.
after_adapter_completing_early(sw, w, o, res, env) ==
    IF res.raised
    THEN _worker_loop(handle_failure(Note(sw, o, "fails"), o, res.msg), w, env)
    ELSE IF ~res.success
    THEN _worker_loop(
            handle_failure(Note(sw, o, "fails"), o,
                IF Truthy(res.error) THEN res.error[1] ELSE "Task execution failed"),
            w, env)
    ELSE IF Truthy(sw.heap[o].verify)
    THEN {At(complete_task(Note(sw, o, "oks"), o, res), w, "verify", o, Some(res))}
    ELSE _worker_loop(complete_task(Note(sw, o, "oks"), o, res), w, env)

\* execute_task after `await run_<backend>(...)` gave res: lines 191-214,
\* then back to the loop unless the verification suspends.
after_adapter(sw, w, o, res, env) ==
    IF res.raised
    THEN _worker_loop(handle_failure(Note(sw, o, "fails"), o, res.msg), w, env)
    ELSE IF ~res.success
    THEN _worker_loop(
            handle_failure(Note(sw, o, "fails"), o,
                IF Truthy(res.error) THEN res.error[1] ELSE "Task execution failed"),
            w, env)
    ELSE IF Truthy(sw.heap[o].verify)
    THEN {At(sw, w, "verify", o, Some(res))}
    ELSE _worker_loop(complete_task(Note(sw, o, "oks"), o, res), w, env)

\* after_verify completing the task whatever the verification said.
after_verify_ignoring(sw, w, o, verified, env) ==
    _worker_loop(
        complete_task(Note(sw, o, "oks"), o, sw.workers[w].result[1]), w, env)

\* execute_task after `await self._verify(task)`: lines 197-214.
after_verify(sw, w, o, verified, env) ==
    IF ~verified
    THEN _worker_loop(
            handle_failure(Note(sw, o, "fails"), o, "Verification failed"), w, env)
    ELSE _worker_loop(
            complete_task(Note(sw, o, "oks"), o, sw.workers[w].result[1]), w, env)

\* Swarm._verify: the command's exit status decides; `true` and `false` are
\* the shell's, any other command can go either way.
_verify(task) ==
    CASE task.verify = Some("true") -> {TRUE}
      [] task.verify = Some("false") -> {FALSE}
      [] OTHER -> BOOLEAN

-----------------------------------------------------------------------------
(* start, stop, clear. *)

NewWorker == [pc |-> "loop", task |-> 0, result |-> None]

\* start without its `if self.running: return`.
start_unguarded(sw, num_workers) ==
    [sw EXCEPT
        !.running = TRUE,
        !.max_concurrent = num_workers,
        !.workers = @ \o [i \in 1..num_workers |-> NewWorker]]

\* Swarm.start
start(sw, num_workers) ==
    IF sw.running
    THEN sw
    ELSE [sw EXCEPT
            !.running = TRUE,
            !.max_concurrent = num_workers,
            !.workers = @ \o [i \in 1..num_workers |-> NewWorker]]

\* stop that leaves the pool as it is.
stop_leaving_pool(sw) == sw

\* Swarm.stop: a cancelled worker gets CancelledError at its await, which
\* no `except Exception` of the code catches, so it runs no further.
stop(sw) == [sw EXCEPT !.running = FALSE, !.workers = <<>>]

\* clear that leaves the name table.
clear_keeping_names(sw) ==
    [sw EXCEPT !.queues = EmptyQueues, !.tasks = <<>>]

\* Swarm.clear
clear(sw) ==
    [sw EXCEPT !.queues = EmptyQueues, !.tasks = <<>>, !.tasks_by_name = <<>>]

-----------------------------------------------------------------------------
(* status, results. *)

\* CountStatus taking the pending count from the queues.
CountStatusFromQueues(sw, st) ==
    IF st = PENDING
    THEN Len(sw.queues[0]) + Len(sw.queues[1]) + Len(sw.queues[2]) + Len(sw.queues[3])
    ELSE Cardinality({i \in 1..Len(sw.tasks) : sw.heap[sw.tasks[i][2]].status = st})

\* The number of tasks of the id table with status st.
CountStatus(sw, st) ==
    Cardinality({i \in 1..Len(sw.tasks) : sw.heap[sw.tasks[i][2]].status = st})

\* The by_backend loop of status over the objects objs, from the dict acc.
RECURSIVE by_backend(_, _, _)
by_backend(sw, objs, acc) ==
    IF objs = <<>>
    THEN acc
    ELSE
      LET task == sw.heap[Head(objs)]
          a1 == IF DictHas(acc, task.backend)
                THEN acc
                ELSE DictSet(acc, task.backend,
                             [pending |-> 0, completed |-> 0, failed |-> 0])
          row == DictGet(a1, task.backend)
          a2 == CASE task.status = PENDING ->
                        DictSet(a1, task.backend, [row EXCEPT !.pending = @ + 1])
                  [] task.status = COMPLETED ->
                        DictSet(a1, task.backend, [row EXCEPT !.completed = @ + 1])
                  [] task.status = FAILED ->
                        DictSet(a1, task.backend, [row EXCEPT !.failed = @ + 1])
                  [] OTHER -> a1
      IN by_backend(sw, Tail(objs), a2)

\* Swarm.status
status(sw) ==
    [ running     |-> sw.running,
      workers     |-> Len(sw.workers),
      pending     |-> CountStatus(sw, PENDING),
      in_progress |-> CountStatus(sw, IN_PROGRESS),
      completed   |-> CountStatus(sw, COMPLETED),
      failed      |-> CountStatus(sw, FAILED),
      total       |-> Len(sw.tasks),
      by_backend  |-> by_backend(sw, DictValues(sw.tasks), <<>>) ]

\* Swarm.results
results(sw, include_pending) ==
    LET shown(o) == ~(~include_pending /\ sw.heap[o].status = PENDING)
        objs == SelectSeq(DictValues(sw.tasks), shown)
    IN [ i \in 1..Len(objs) |->
            LET task == sw.heap[objs[i]] IN
            [ id |-> task.id, name |-> task.name, backend |-> task.backend,
              device |-> task.device, status |-> task.status,
              result |-> task.result, error |-> task.error,
              retries |-> task.retries ] ]

-----------------------------------------------------------------------------
(* The actions: the boundary calls and the resumptions of the workers.     *)
(* env names what the environment can do: the declarations submitted       *)
(* (env.decls), the adapter outcomes that arrive after a suspension        *)
(* (env.returned) and those that arrive without one (env.immediate).       *)

NoCall == [op |-> "none", arg |-> FALSE, value |-> <<>>]

Batches(decls) == UNION {[1..n -> decls] : n \in 1..MaxBatch}

\* swarm_submit: add_tasks_from_string; its exception is caught by the tool.
Submit(env) ==
    \E batch \in Batches(env.decls) :
        /\ Len(heap) + Created(batch) <= MaxTasks
        /\ Becomes(add_tasks(Self, batch))
        /\ ret' = NoCall

\* swarm_submit_file: add_tasks_from_yaml runs the same loop as
\* add_tasks_from_string over the declarations of the file; a file that does
\* not exist changes nothing.
SubmitFile(env) ==
    \E batch \in UNION {[1..n -> env.decls] : n \in 1..MaxFileBatch} :
        /\ Len(heap) + Created(batch) <= MaxFileTasks
        /\ Becomes(add_tasks(Self, batch))
        /\ ret' = NoCall

\* swarm_start
Start ==
    \E n \in 1..MaxWorkers :
        /\ Becomes([start(Self, n) EXCEPT !.stopped = FALSE])
        /\ ret' = NoCall

\* swarm_stop
Stop ==
    /\ Becomes([stop(Self) EXCEPT !.stopped = TRUE])
    /\ ret' = NoCall

\* swarm_clear
Clear ==
    /\ Becomes(clear(Self))
    /\ ret' = NoCall

\* swarm_status
Status ==
    /\ ret' = [op |-> "status", arg |-> FALSE, value |-> status(Self)]
    /\ Becomes(Self)

\* results() removing the finished tasks it reports from the id table.
ResultsDraining ==
    \E include_pending \in BOOLEAN :
        /\ ret' = [op |-> "results", arg |-> include_pending,
                   value |-> results(Self, include_pending)]
        /\ Becomes([Self EXCEPT !.tasks =
              SelectSeq(@, LAMBDA e : heap[e[2]].status \in {PENDING, IN_PROGRESS})])

\* swarm_results
Results ==
    \E include_pending \in BOOLEAN :
        /\ ret' = [op |-> "results", arg |-> include_pending,
                   value |-> results(Self, include_pending)]
        /\ Becomes(Self)

\* Worker w is resumed at the head of its loop: its first run, or its
\* asyncio.sleep(0.5) is over.
Wake(w, env) ==
    /\ w \in 1..Len(workers)
    /\ workers[w].pc = "loop"
    /\ \E s \in _worker_loop(Self, w, env) : Becomes(s)
    /\ ret' = NoCall

\* The adapter call worker w awaits returns or raises.
Returned(w, env) ==
    /\ w \in 1..Len(workers)
    /\ workers[w].pc = "exec"
    /\ LET o == workers[w].task IN
       \E k \in env.returned :
          /\ Possible(k, heap[o])
          /\ \E s \in after_adapter(Self, w, o, AdapterResult(k, heap[o]), env) :
                Becomes(s)
    /\ ret' = NoCall

\* The verification command worker w awaits ends.
Verified(w, env) ==
    /\ w \in 1..Len(workers)
    /\ workers[w].pc = "verify"
    /\ LET o == workers[w].task IN
       \E verified \in _verify(heap[o]) :
          \E s \in after_verify(Self, w, o, verified, env) : Becomes(s)
    /\ ret' = NoCall

WorkerWakes(env) == \E w \in 1..MaxWorkers : Wake(w, env)
AdapterReturns(env) == \E w \in 1..MaxWorkers : Returned(w, env)
VerifyReturns(env) == \E w \in 1..MaxWorkers : Verified(w, env)

\* The state after construction is sw.
StartsAs(sw) ==
    /\ heap = sw.heap
    /\ queues = sw.queues
    /\ tasks = sw.tasks
    /\ tasks_by_name = sw.tasks_by_name
    /\ running = sw.running
    /\ workers = sw.workers
    /\ max_concurrent = sw.max_concurrent
    /\ hist = sw.hist
    /\ stopped = sw.stopped
    /\ ret = NoCall

Init == StartsAs(NewSwarm)

-----------------------------------------------------------------------------
(* The general specification: any interleaving of the boundary calls with  *)
(* the workers, over a small set of declarations.                          *)

Decls ==
    { [name |-> "A", prompt |-> <<"p", "">>, priority |-> "P0"],
      [name |-> "B", prompt |-> <<"p", "">>, priority |-> "P3",
       dependencies |-> <<"A">>],
      [name |-> "A", prompt |-> <<"p", "x">>, backend |-> "codex",
       priority |-> "P3", verify |-> Some("pytest")],
      [name |-> "B", prompt |-> <<"q", "">>, backend |-> "unknown-backend",
       priority |-> "p1"],
      [prompt |-> <<"p", "">>] }

Env == [decls |-> Decls, returned |-> {"ok", "failed"}, immediate |-> {}]

Next ==
    \/ Submit(Env)
    \/ Start
    \/ Stop
    \/ Clear
    \/ WorkerWakes(Env)
    \/ AdapterReturns(Env)
    \/ VerifyReturns(Env)

Spec == Init /\ [][Next]_vars

(* The general specification with the two queries as well. *)

NextObs ==
    \/ Next
    \/ Status
    \/ Results

SpecObs == Init /\ [][NextObs]_vars

-----------------------------------------------------------------------------
(* Submissions from task files of up to MaxFileBatch declarations, two of  *)
(* them sharing a name and one without a name, to a pool whose adapter     *)
(* calls succeed.                                                          *)

DeclsFile ==
    { [name |-> "A", prompt |-> <<"p", "">>, priority |-> "P0"],
      [name |-> "A", prompt |-> <<"q", "">>, priority |-> "P1"],
      [name |-> "B", prompt |-> <<"p", "">>, priority |-> "P3",
       dependencies |-> <<"A">>],
      [prompt |-> <<"p", "">>] }

EnvFile == [decls |-> DeclsFile, returned |-> {"ok"}, immediate |-> {}]

NextFile ==
    \/ SubmitFile(EnvFile)
    \/ Start
    \/ Clear
    \/ WorkerWakes(EnvFile)
    \/ AdapterReturns(EnvFile)

SpecFile == Init /\ [][NextFile]_vars

-----------------------------------------------------------------------------
(* A started pool whose adapter calls always succeed, under the fairness   *)
(* of the event loop: a worker that can run is run, and an awaited call     *)
(* that can return does.                                                    *)

DeclsFair ==
    { [name |-> "A", prompt |-> <<"p", "">>, priority |-> "P0"],
      [name |-> "B", prompt |-> <<"p", "">>, priority |-> "P3",
       dependencies |-> <<"A">>],
      [name |-> "C", prompt |-> <<"p", "">>, verify |-> Some("false")],
      [name |-> "D", prompt |-> <<"p", "">>, priority |-> "P1",
       verify |-> Some("true"), dependencies |-> <<"B", "C">>],
      [name |-> "A", prompt |-> <<"q", "">>, backend |-> "kimi",
       dependencies |-> <<"Z">>] }

EnvFair == [decls |-> DeclsFair, returned |-> {"ok"}, immediate |-> {}]

InitFair ==
    \E batch \in Batches(DeclsFair), n \in 1..MaxWorkers :
        StartsAs(start(add_tasks(NewSwarm, batch), n))

NextFair ==
    \/ WorkerWakes(EnvFair)
    \/ AdapterReturns(EnvFair)
    \/ VerifyReturns(EnvFair)

Fairness ==
    \A w \in 1..MaxWorkers :
        /\ WF_vars(Wake(w, EnvFair))
        /\ WF_vars(Returned(w, EnvFair))
        /\ WF_vars(Verified(w, EnvFair))

SpecFair == InitFair /\ [][NextFair]_vars /\ Fairness

(* The same pool with stop and start called at any moment: the workers a   *)
(* stop cancels take no further step, those a later start creates do.      *)

NextStop ==
    \/ NextFair
    \/ Stop
    \/ Start

SpecStop == InitFair /\ [][NextStop]_vars /\ Fairness

-----------------------------------------------------------------------------
(* A started pool over declarations whose dependencies cannot all resolve:  *)
(* a cycle (X, Y), a name nobody submits (Z), a task whose verification    *)
(* always fails (F) and one that waits for it (G).  No submission follows.  *)

DeclsDeadlock ==
    { [name |-> "X", prompt |-> <<"p", "">>, dependencies |-> <<"Y">>],
      [name |-> "Y", prompt |-> <<"p", "">>, priority |-> "P1",
       dependencies |-> <<"X">>],
      [name |-> "C", prompt |-> <<"p", "">>, priority |-> "P0",
       dependencies |-> <<"Z">>],
      [name |-> "F", prompt |-> <<"p", "">>, verify |-> Some("false")],
      [name |-> "G", prompt |-> <<"p", "">>, priority |-> "P0",
       dependencies |-> <<"F">>],
      [name |-> "A", prompt |-> <<"p", "">>, priority |-> "P3"] }

EnvDeadlock == [decls |-> DeclsDeadlock, returned |-> {"ok", "failed"}, immediate |-> {}]

InitDeadlock ==
    \E batch \in Batches(DeclsDeadlock), n \in 1..MaxWorkers :
        StartsAs(start(add_tasks(NewSwarm, batch), n))

NextDeadlock ==
    \/ WorkerWakes(EnvDeadlock)
    \/ AdapterReturns(EnvDeadlock)
    \/ VerifyReturns(EnvDeadlock)

SpecDeadlock == InitDeadlock /\ [][NextDeadlock]_vars

-----------------------------------------------------------------------------
(* A started pool whose attempts fail in every way the code knows: the      *)
(* adapter reports a failure, with or without a message, times out, raises, *)
(* finds no CLI (without suspending), the verification fails, the backend   *)
(* is unknown.                                                              *)

DeclsFailures ==
    { [name |-> "A", prompt |-> <<"p", "">>, backend |-> "codex", priority |-> "P0"],
      [name |-> "V", prompt |-> <<"p", "">>, verify |-> Some("pytest")],
      [name |-> "U", prompt |-> <<"p", "">>, backend |-> "unknown-backend"] }

EnvFailures ==
    [ decls |-> DeclsFailures,
      returned |-> {"ok", "failed", "silent", "timeout", "exc"},
      immediate |-> {"not_found"} ]

InitFailures ==
    \E batch \in Batches(DeclsFailures), n \in 1..MaxWorkers :
        StartsAs(start(add_tasks(NewSwarm, batch), n))

NextFailures ==
    \/ WorkerWakes(EnvFailures)
    \/ AdapterReturns(EnvFailures)
    \/ VerifyReturns(EnvFailures)

SpecFailures == InitFailures /\ [][NextFailures]_vars

-----------------------------------------------------------------------------
(* A started pool whose adapter calls and verifications all return, with    *)
(* either outcome: a dependency (B on A) and a task of B's priority with a  *)
(* verification (V).  No submission, stop or clear follows.                 *)

DeclsRetry ==
    { [name |-> "A", prompt |-> <<"p", "">>, priority |-> "P0"],
      [name |-> "B", prompt |-> <<"p", "">>, priority |-> "P3",
       dependencies |-> <<"A">>],
      [name |-> "V", prompt |-> <<"p", "">>, priority |-> "P3",
       verify |-> Some("pytest")] }

EnvRetry == [decls |-> DeclsRetry, returned |-> {"ok", "failed"}, immediate |-> {}]

InitRetry ==
    \E batch \in Batches(DeclsRetry), n \in 1..MaxWorkers :
        StartsAs(start(add_tasks(NewSwarm, batch), n))

NextRetry ==
    \/ WorkerWakes(EnvRetry)
    \/ AdapterReturns(EnvRetry)
    \/ VerifyReturns(EnvRetry)

\* Every worker runs again after its sleep, and every adapter call and
\* verification it awaits returns.
FairnessRetry ==
    \A w \in 1..MaxWorkers :
        /\ WF_vars(Wake(w, EnvRetry))
        /\ WF_vars(Returned(w, EnvRetry))
        /\ WF_vars(Verified(w, EnvRetry))

SpecRetry == InitRetry /\ [][NextRetry]_vars /\ FairnessRetry

-----------------------------------------------------------------------------
(* The general specification of a swarm that clear() is never called on. *)

NextNoClear ==
    \/ Submit(Env)
    \/ Start
    \/ Stop
    \/ WorkerWakes(Env)
    \/ AdapterReturns(Env)
    \/ VerifyReturns(Env)

SpecNoClear == Init /\ [][NextNoClear]_vars

-----------------------------------------------------------------------------
(* What the properties talk about. *)

Objects == 1..Len(heap)

\* The objects in the queues qs.
QueuedIn(qs) == UNION {{qs[p][i] : i \in 1..Len(qs[p])} : p \in 0..3}

\* Every dependency name of o is in the name table, under a COMPLETED task.
DepsCompleted(o) ==
    \A k \in 1..Len(heap[o].dependencies) :
        \E i \in 1..Len(tasks_by_name) :
            /\ tasks_by_name[i][1] = heap[o].dependencies[k]
            /\ heap[tasks_by_name[i][2]].status = COMPLETED

\* Ready, as the glossary has it: PENDING with all dependencies COMPLETED.
IsReady(o) == heap[o].status = PENDING /\ DepsCompleted(o)

ReadyQueued == {o \in QueuedIn(queues) : IsReady(o)}

\* Worker w holds a task it was given (it is executing or verifying it).
Holds(w, o) == workers[w].task = o /\ workers[w].pc \in {"exec", "verify"}

-----------------------------------------------------------------------------
(* C1: in every reachable state with a ready queued task, get_next_task    *)
(* returns a ready task, and no ready task of a strictly higher priority   *)
(* (a smaller P number) is left in the queues it leaves.                   *)
C1_HighestPriorityFirst ==
    LET next == get_next_task(Self) IN
    ReadyQueued # {} =>
        /\ next.task \in ReadyQueued
        /\ \A o \in QueuedIn(next.queues) \cap ReadyQueued :
              heap[o].priority >= heap[next.task].priority

\* Two ready tasks of different priorities are queued, a worker is about to
\* ask for the next task, and the call gives the one of higher priority.
C1_Witness ==
    /\ running
    /\ \E w \in 1..Len(workers) : workers[w].pc = "loop"
    /\ \E o1, o2 \in ReadyQueued :
          /\ heap[o1].priority < heap[o2].priority
          /\ get_next_task(Self).task = o1

(* C2: a step dispatches a task (hands it to execute_task) only if, after  *)
(* the step, every name in its dependencies is in the name table under a   *)
(* COMPLETED task; so each dependency completed before the dispatch.       *)
C2_DispatchOnlyWhenDepsCompleted ==
    [][\A o \in Objects :
          hist'[o].dispatches > hist[o].dispatches => DepsCompleted(o)']_vars

\* A task with a dependency has been dispatched.
C2_Witness ==
    \E o \in Objects : heap[o].dependencies # <<>> /\ hist[o].dispatches >= 1

(* C3: no two workers hold the same task, and a task has been dispatched   *)
(* at most once more than it has failed.                                   *)
C3_NoDoublePickup ==
    /\ \A w1, w2 \in 1..Len(workers) :
          (w1 # w2 /\ workers[w1].task # 0) => workers[w1].task # workers[w2].task
    /\ \A o \in Objects : hist[o].dispatches <= hist[o].fails + 1

\* Two workers execute two tasks at once, one of them on a retry.
C3_Witness ==
    \E w1, w2 \in 1..Len(workers) :
        /\ w1 # w2
        /\ workers[w1].task # 0
        /\ workers[w2].task # 0
        /\ hist[workers[w1].task].dispatches >= 2

(* C4: a task whose attempts have failed max_retries times is FAILED with  *)
(* retries = max_retries, and a FAILED task stays FAILED, is in no queue   *)
(* and is not dispatched again.                                            *)
C4_FailedAfterMaxRetries ==
    /\ [](\A o \in Objects :
            hist[o].fails = heap[o].max_retries =>
                /\ heap[o].status = FAILED
                /\ heap[o].retries = heap[o].max_retries)
    /\ [][\A o \in Objects :
            heap[o].status = FAILED =>
                /\ heap'[o].status = FAILED
                /\ o \notin QueuedIn(queues')
                /\ hist'[o].dispatches = hist[o].dispatches]_vars

\* A task of a known backend whose adapter call failed max_retries times.
C4_Witness ==
    \E o \in Objects :
        /\ heap[o].backend \in {"codex", "kimi", "cursor", "opencode"}
        /\ hist[o].fails = heap[o].max_retries
        /\ heap[o].status = FAILED

(* C5: a task whose attempts failed max_retries - 1 times and then         *)
(* succeeded is COMPLETED with retries = max_retries - 1.                  *)
C5_CompletedAfterRetries ==
    \A o \in Objects :
        (hist[o].fails = heap[o].max_retries - 1 /\ hist[o].oks >= 1) =>
            /\ heap[o].status = COMPLETED
            /\ heap[o].retries = heap[o].max_retries - 1

\* A task succeeded on its last allowed attempt.
C5_Witness ==
    \E o \in Objects :
        /\ hist[o].fails = heap[o].max_retries - 1
        /\ hist[o].oks = 1
        /\ heap[o].status = COMPLETED

(* C6: in every reachable state the counts of status() add up:             *)
(* pending + in_progress + completed + failed = total.                     *)
C6_StatusCountsAddUp ==
    LET st == status(Self) IN
    st.pending + st.in_progress + st.completed + st.failed = st.total

\* Two workers are running, one task is in flight and another is pending.
C6_Witness ==
    /\ running
    /\ Len(workers) = 2
    /\ status(Self).in_progress >= 1
    /\ status(Self).pending >= 1

(* C8: a task whose backend is none of codex, kimi, cursor, opencode is    *)
(* accepted; each dispatch of it fails and costs one retry; it is PENDING  *)
(* until max_retries dispatches and FAILED from then on, its error saying  *)
(* "Unknown backend".                                                      *)
C8_UnknownBackendFails ==
    \A o \in Objects :
        heap[o].backend \notin {"codex", "kimi", "cursor", "opencode"} =>
            /\ heap[o].retries = hist[o].dispatches
            /\ hist[o].fails = hist[o].dispatches
            /\ hist[o].oks = 0
            /\ heap[o].status =
                  IF hist[o].dispatches = heap[o].max_retries THEN FAILED ELSE PENDING
            /\ hist[o].dispatches >= 1 =>
                  heap[o].error = Some("Unknown backend: " \o heap[o].backend)

\* A task of an unknown backend was submitted and ended FAILED.
C8_Witness ==
    \E o \in Objects :
        /\ heap[o].backend = "unknown-backend"
        /\ heap[o].status = FAILED
        /\ hist[o].dispatches = heap[o].max_retries
        /\ heap[o].error = Some("Unknown backend: unknown-backend")

\* Task object o can complete when every attempt succeeds: its verification
\* can pass, and each of its dependency names is in the name table under a
\* task that can complete, along a chain of at most fuel tasks.
RECURSIVE CanComplete(_, _)
CanComplete(o, fuel) ==
    /\ fuel > 0
    /\ heap[o].verify # Some("false")
    /\ \A k \in 1..Len(heap[o].dependencies) :
          LET dep == DictGet(tasks_by_name, heap[o].dependencies[k]) IN
          dep # 0 /\ CanComplete(dep, fuel - 1)

(* C7: with at least one running worker and attempts that always succeed,  *)
(* every task whose dependencies form a resolvable acyclic chain is        *)
(* eventually COMPLETED, and a step that dispatches a task ends with its   *)
(* start timestamp set and each of its dependencies COMPLETED with its     *)
(* completion timestamp set (a worker that completes A may dispatch B in   *)
(* the same uninterrupted run, the completion coming first); so with       *)
(* critical A and low B depending on A, A runs first and both complete.    *)
C7_ResolvableChainCompletes ==
    /\ \A o \in 1..MaxBatch :
          (o <= Len(heap) /\ CanComplete(o, MaxBatch + 1))
              ~> (o <= Len(heap) /\ heap[o].status = COMPLETED)
    /\ [][\A o \in Objects :
            hist'[o].dispatches > hist[o].dispatches =>
                /\ heap'[o].started_at # None
                /\ \A k \in 1..Len(heap[o].dependencies) :
                      LET dep == DictGet(tasks_by_name', heap[o].dependencies[k]) IN
                      /\ dep # 0
                      /\ heap'[dep].status = COMPLETED
                      /\ heap'[dep].completed_at # None]_vars

\* One worker; critical A and low B depending on A have both completed.
C7_Witness ==
    /\ Len(workers) = 1
    /\ \E a, b \in Objects :
          /\ heap[a].name = "A" /\ heap[a].priority = 0 /\ heap[a].dependencies = <<>>
          /\ heap[b].name = "B" /\ heap[b].priority = 3 /\ heap[b].dependencies = <<"A">>
          /\ heap[a].status = COMPLETED /\ heap[b].status = COMPLETED
          /\ heap[b].started_at # None /\ heap[a].completed_at # None

(* C9: a task whose verify command always fails, its adapter calls all     *)
(* succeeding, never reaches COMPLETED, and once dispatchable it           *)
(* eventually is FAILED with its retries used up.                          *)
C9_VerifyAlwaysFailing ==
    /\ [](\A o \in Objects :
            heap[o].verify = Some("false") =>
                /\ heap[o].status # COMPLETED
                /\ hist[o].oks = 0
                /\ heap[o].retries = hist[o].fails)
    /\ \A o \in 1..MaxBatch :
          (/\ o <= Len(heap)
           /\ heap[o].verify = Some("false")
           /\ \A k \in 1..Len(heap[o].dependencies) :
                 LET dep == DictGet(tasks_by_name, heap[o].dependencies[k]) IN
                 dep # 0 /\ CanComplete(dep, MaxBatch))
              ~> (/\ o <= Len(heap)
                  /\ heap[o].status = FAILED
                  /\ heap[o].retries = heap[o].max_retries)

\* A task whose verification failed on each of its max_retries attempts.
C9_Witness ==
    \E o \in Objects :
        /\ heap[o].verify = Some("false")
        /\ heap[o].status = FAILED
        /\ heap[o].retries = heap[o].max_retries
        /\ hist[o].dispatches = heap[o].max_retries
        /\ heap[o].error = Some("Verification failed")

C11_StartIdempotent ==
    \A n \in 1..MaxWorkers :
        LET after == start(Self, n) IN
        IF running
        THEN after = Self
        ELSE /\ after.running
             /\ Len(after.workers) = n
             /\ after.max_concurrent = n
             /\ after = start(after, n)

\* The swarm runs with two workers, one of them executing a task, and a
\* start(1) now would change nothing.
C11_Witness ==
    /\ running
    /\ Len(workers) = 2
    /\ \E w \in 1..Len(workers) : workers[w].pc = "exec"
    /\ start(Self, 1) = Self

(* C12: from the return of stop() to the next start() no task is           *)
(* dispatched: no step moves a task from PENDING to IN_PROGRESS, whether   *)
(* the workers were polling or executing when stop() was called; and       *)
(* dispatching steps happen in a running swarm only.                       *)
C12_NoDispatchAfterStop ==
    [][\A o \in Objects :
          /\ (stopped /\ stopped') =>
                /\ hist'[o].dispatches = hist[o].dispatches
                /\ ~(heap[o].status = PENDING /\ heap'[o].status = IN_PROGRESS)
          /\ hist'[o].dispatches > hist[o].dispatches => (running /\ running')]_vars

\* stop() has returned; a task was in flight when it was called, an earlier
\* attempt had failed, and a ready task is waiting in a queue.
C12_Witness ==
    /\ stopped
    /\ ~running
    /\ ReadyQueued # {}
    /\ \E o \in Objects : heap[o].status = IN_PROGRESS
    /\ \E o \in Objects : hist[o].fails >= 1

(* C13: a task that is IN_PROGRESS, also when stop() is called meanwhile,   *)
(* eventually leaves IN_PROGRESS (its attempt finishes): no task stays     *)
(* IN_PROGRESS forever.                                                    *)
C13_InFlightTaskFinishes ==
    \A o \in 1..MaxBatch :
        (o <= Len(heap) /\ heap[o].status = IN_PROGRESS)
            ~> (o <= Len(heap) /\ heap[o].status # IN_PROGRESS)

(* C14: the number of IN_PROGRESS tasks is at most the worker count given  *)
(* to start (max_concurrent).                                              *)
C14_InProgressAtMostN ==
    Cardinality({o \in Objects : heap[o].status = IN_PROGRESS}) <= max_concurrent

\* The tasks of the id table and of the name table.
IdTableTasks == {tasks[i][2] : i \in 1..Len(tasks)}
NameTableTasks == {tasks_by_name[i][2] : i \in 1..Len(tasks_by_name)}

(* C15, as stated: the id table and the name table hold the same tasks.    *)
C15_TablesHoldSameTasks == IdTableTasks = NameTableTasks

(* C15, amended: every task of the id table is filed under its id and has  *)
(* its name in the name table, every task of the name table is filed       *)
(* under its name and has its id in the id table, and the task found there *)
(* is the same one or one submitted later; the two tables hold the same    *)
(* tasks whenever no two tasks of the id table share a name and no two     *)
(* tasks of the name table share an id.                                    *)
C15_TablesAgreeUpToLaterTasks ==
    /\ \A i \in 1..Len(tasks) :
          LET o == tasks[i][2] IN
          /\ heap[o].id = tasks[i][1]
          /\ DictGet(tasks_by_name, heap[o].name) >= o
    /\ \A i \in 1..Len(tasks_by_name) :
          LET o == tasks_by_name[i][2] IN
          /\ heap[o].name = tasks_by_name[i][1]
          /\ DictGet(tasks, heap[o].id) >= o
    /\ (/\ \A o1, o2 \in IdTableTasks : heap[o1].name = heap[o2].name => o1 = o2
        /\ \A o1, o2 \in NameTableTasks : heap[o1].id = heap[o2].id => o1 = o2)
          => IdTableTasks = NameTableTasks

\* Two tasks of one name and different prompts were submitted: the id table
\* holds both, the name table the later one only.
C15_Witness ==
    \E o1, o2 \in IdTableTasks :
        /\ o1 < o2
        /\ heap[o1].name = heap[o2].name
        /\ heap[o1].id # heap[o2].id
        /\ NameTableTasks = {o2}

\* A declaration without name or prompt, and the batches of a task file
\* that hold one.
MissingField(d) == "name" \notin DOMAIN d \/ "prompt" \notin DOMAIN d

BatchesWithInvalid ==
    {b \in UNION {[1..n -> DeclsFile] : n \in 1..MaxFileBatch} :
        \E i \in 1..Len(b) : MissingField(b[i])}

(* C16: a step that submits a batch holding a declaration without name or  *)
(* prompt either rejects the invalid declarations only (every valid        *)
(* declaration of the batch is added, as if submitted without them) or     *)
(* rejects the whole batch (the swarm is unchanged).                       *)
C16_InvalidRejectedAloneOrWithBatch ==
    [][\A batch \in BatchesWithInvalid :
          Becomes(add_tasks(Self, batch)) =>
              \/ Becomes(add_tasks(Self, SelectSeq(batch, LAMBDA d : ~MissingField(d))))
              \/ Becomes(Self)]_vars

\* Queues and tables are all empty: the state clear() leaves.
AllEmpty == QueuedIn(queues) = {} /\ tasks = <<>> /\ tasks_by_name = <<>>

\* A worker has a task in flight.
InFlight == \E w \in 1..Len(workers) : workers[w].task # 0

IsPath(s1, s2, d, f, k) ==
    CASE s1 = PENDING /\ s2 = PENDING         -> d = f /\ k = 0
      [] s1 = PENDING /\ s2 = IN_PROGRESS     -> d = f + 1 /\ k = 0
      [] s1 = PENDING /\ s2 = COMPLETED       -> d = f + 1 /\ k = 1
      [] s1 = PENDING /\ s2 = FAILED          -> d = f /\ d >= 1 /\ k = 0
      [] s1 = IN_PROGRESS /\ s2 = IN_PROGRESS -> d = f /\ k = 0
      [] s1 = IN_PROGRESS /\ s2 = PENDING     -> f = d + 1 /\ k = 0
      [] s1 = IN_PROGRESS /\ s2 = COMPLETED   -> d = f /\ k = 1
      [] s1 = IN_PROGRESS /\ s2 = FAILED      -> f = d + 1 /\ k = 0
      [] OTHER -> s1 = s2 /\ d = 0 /\ f = 0 /\ k = 0

(* C18: every status change follows the state machine PENDING ->           *)
(* IN_PROGRESS -> {COMPLETED, FAILED, PENDING}: what a step does to a task *)
(* is a path of these edges, one edge per dispatch, failure and success; a *)
(* new task is PENDING; a COMPLETED or FAILED task never changes status    *)
(* and is never dispatched.                                                *)
C18_StatusStateMachine ==
    [][/\ Len(heap') >= Len(heap)
       /\ \A o \in 1..Len(heap') :
             IF o > Len(heap)
             THEN heap'[o].status = PENDING /\ hist'[o] = NoHistory
             ELSE /\ heap'[o].status \in {PENDING, IN_PROGRESS, COMPLETED, FAILED}
                  /\ IsPath(heap[o].status, heap'[o].status,
                            hist'[o].dispatches - hist[o].dispatches,
                            hist'[o].fails - hist[o].fails,
                            hist'[o].oks - hist[o].oks)]_vars

\* One task has gone PENDING, IN_PROGRESS, PENDING (retry), IN_PROGRESS,
\* COMPLETED and another has ended FAILED.
C18_Witness ==
    /\ \E o \in Objects :
          heap[o].status = COMPLETED /\ hist[o].fails >= 1 /\ hist[o].oks = 1
    /\ \E o \in Objects : heap[o].status = FAILED

\* The objects of a queue.
Elements(q) == {q[i] : i \in 1..Len(q)}

\* The objects of queue p that a step leaves waiting in it: still queued and
\* not dispatched meanwhile.
Waiting(p) ==
    {o \in Elements(queues[p]) \cap Elements(queues'[p]) :
        hist'[o].dispatches = hist[o].dispatches}

(* C19: within a priority level dispatch is FIFO over ready tasks: the     *)
(* task get_next_task returns is the first ready task of its queue, the    *)
(* queue it leaves is the old one without that task, the other queues are  *)
(* untouched; and every step keeps the tasks that wait in a queue in their *)
(* order and puts what it appends (new and requeued tasks) behind them.    *)
C19_FifoWithinLevel ==
    /\ [](LET next == get_next_task(Self) IN
          next.task # 0 =>
              LET p == heap[next.task].priority
                  i == CHOOSE i \in 1..Len(queues[p]) : queues[p][i] = next.task
              IN /\ next.task \in Elements(queues[p])
                 /\ IsReady(next.task)
                 /\ \A j \in 1..(i - 1) : ~IsReady(queues[p][j])
                 /\ next.queues[p] = Pop(queues[p], i)
                 /\ \A q \in 0..3 : q # p => next.queues[q] = queues[q])
    /\ [][\A p \in 0..3 :
            \E n \in 0..Len(queues'[p]) :
                /\ \A i \in 1..n : queues'[p][i] \in Waiting(p)
                /\ \A i \in (n + 1)..Len(queues'[p]) : queues'[p][i] \notin Waiting(p)
                /\ \A i, j \in 1..n :
                      i < j =>
                        \E a, b \in 1..Len(queues[p]) :
                            a < b /\ queues[p][a] = queues'[p][i]
                                  /\ queues[p][b] = queues'[p][j]]_vars

\* A blocked task is at the head of a queue, a ready task waits behind it,
\* and get_next_task passes over the blocked one and returns the ready one.
C19_Witness ==
    \E p \in 0..3 :
        /\ Len(queues[p]) >= 2
        /\ ~IsReady(queues[p][1])
        /\ IsReady(queues[p][2])
        /\ get_next_task(Self).task = queues[p][2]
        /\ running

\* How often object o occurs in the queues qs.
Occurrences(qs, o) ==
    Cardinality({pi \in (0..3) \X (1..Len(heap)) :
                    pi[2] <= Len(qs[pi[1]]) /\ qs[pi[1]][pi[2]] = o})

(* C20: when the attempt a worker has in flight fails with retries, after  *)
(* the increment, below max_retries, the except block sets the task        *)
(* PENDING and appends it at the back of the queue of its priority, where  *)
(* it then is exactly once; the priority stays, and no other queue, no     *)
(* other task and no table changes.                                        *)
C20_RequeueAtBackOfOwnLevel ==
    \A w \in 1..Len(workers) :
        LET o == workers[w].task IN
        (o # 0 /\ heap[o].retries + 1 < heap[o].max_retries) =>
            LET after == handle_failure(Self, o, "stderr")
                p == heap[o].priority
            IN /\ after.heap[o] = [heap[o] EXCEPT !.status = PENDING,
                                                  !.retries = @ + 1,
                                                  !.error = Some("stderr")]
               /\ after.queues[p] = Append(queues[p], o)
               /\ Occurrences(after.queues, o) = 1
               /\ \A q \in 0..3 : q # p => after.queues[q] = queues[q]
               /\ \A o2 \in Objects : o2 # o => after.heap[o2] = heap[o2]
               /\ after.tasks = tasks
               /\ after.tasks_by_name = tasks_by_name

\* A worker has a task in flight with retries left and another task waits
\* in the queue of the same priority; an earlier attempt has been requeued.
C20_Witness ==
    \E w \in 1..Len(workers) :
        LET o == workers[w].task IN
        /\ o # 0
        /\ heap[o].retries = 1
        /\ workers[w].pc = "exec"
        /\ queues[heap[o].priority] # <<>>

\* The dependencies of o that are not COMPLETED tasks of the name table, as
\* positions of its dependency list.
Outstanding(o) ==
    {k \in 1..Len(heap[o].dependencies) :
        ~\E i \in 1..Len(tasks_by_name) :
            /\ tasks_by_name[i][1] = heap[o].dependencies[k]
            /\ heap[tasks_by_name[i][2]].status = COMPLETED}

\* The objects at the places of a set of candidates of the queues qs.
ObjectsAt(qs, C) == {qs[Priority[c[1]]][c[2]] : c \in C}

(* C21: get_next_task returns None exactly when no queued task is PENDING  *)
(* with all its dependencies COMPLETED, blocked PENDING tasks or not, and  *)
(* then leaves the queues as they are; and a queued PENDING task whose     *)
(* only outstanding dependencies name one task is eligible as soon as that *)
(* task is COMPLETED, nothing else changing.                               *)
C21_NoneIffNothingReady ==
    LET next == get_next_task(Self) IN
    /\ next.task = 0 <=> ReadyQueued = {}
    /\ next.task = 0 => next.queues = queues
    /\ \A o \in QueuedIn(queues), d \in Objects :
          (/\ heap[o].status = PENDING
           /\ Outstanding(o) # {}
           /\ heap[d].status # COMPLETED
           /\ \A k \in Outstanding(o) :
                 DictGet(tasks_by_name, heap[o].dependencies[k]) = d) =>
              LET then == [Self EXCEPT !.heap[d].status = COMPLETED] IN
              /\ o \in ObjectsAt(queues, Candidates(then))
              /\ get_next_task(then).task # 0

\* A PENDING task waits in a queue for a dependency that a worker is
\* executing, nothing is ready, and get_next_task returns None.
C21_Witness ==
    /\ running
    /\ get_next_task(Self).task = 0
    /\ \E o \in QueuedIn(queues) :
          /\ heap[o].status = PENDING
          /\ \E k \in Outstanding(o) :
                LET d == DictGet(tasks_by_name, heap[o].dependencies[k]) IN
                d # 0 /\ heap[d].status = IN_PROGRESS

\* With no further submission, a dependency name of o never resolves to a
\* COMPLETED task: the name is not in the name table, or the task it names
\* is FAILED, or fails its verification every time, or waits itself for a
\* name that never resolves; a chain of fuel + 1 waiting tasks, among at
\* most fuel tasks, is a cycle.
RECURSIVE NeverResolves(_, _)
NeverResolves(o, fuel) ==
    \E k \in 1..Len(heap[o].dependencies) :
        LET dep == DictGet(tasks_by_name, heap[o].dependencies[k]) IN
        \/ dep = 0
        \/ heap[dep].status = FAILED
        \/ /\ heap[dep].status # COMPLETED
           /\ \/ heap[dep].verify = Some("false")
              \/ fuel = 0
              \/ NeverResolves(dep, fuel - 1)

(* C22: a task with a dependency name that never resolves to a COMPLETED   *)
(* task (never submitted, naming a task that ends FAILED, or in a cycle)   *)
(* is never dispatched and gets no error: it stays PENDING with retries 0  *)
(* and error unset, once in the queue of its priority, and this stays so.  *)
C22_UnresolvedStaysPending ==
    /\ [](\A o \in Objects :
            NeverResolves(o, MaxBatch) =>
                /\ heap[o].status = PENDING
                /\ heap[o].retries = 0
                /\ heap[o].error = None
                /\ heap[o].started_at = None
                /\ hist[o].dispatches = 0
                /\ Occurrences(queues, o) = 1
                /\ o \in Elements(queues[heap[o].priority]))
    /\ [][\A o \in Objects :
            NeverResolves(o, MaxBatch) => NeverResolves(o, MaxBatch)']_vars

\* The pool has gone idle with a task left PENDING whose dependency ended
\* FAILED.
C22_Witness ==
    /\ \A w \in 1..Len(workers) : workers[w].pc = "loop"
    /\ \E o \in Objects :
          /\ heap[o].status = PENDING
          /\ heap[o].dependencies # <<>>
          /\ DictGet(tasks_by_name, heap[o].dependencies[1]) # 0
          /\ heap[DictGet(tasks_by_name, heap[o].dependencies[1])].status = FAILED

\* The message execute_task's except block gets for a failed adapter call of
\* each kind: result.error, or the default when it is empty; str(e) of what
\* was raised.
FailureKinds == {"failed", "silent", "timeout", "not_found", "exc"}

ExpectedMessage(kind, task) ==
    CASE kind = "failed" -> "stderr"
      [] kind = "silent" -> "Task execution failed"
      [] kind = "timeout" ->
            IF task.backend = "codex" THEN "Timeout after 600s - process killed"
            ELSE IF task.backend = "kimi" THEN "Timeout after 300s - process killed"
            ELSE "Timeout after 180s - process killed"
      [] kind = "not_found" ->
            IF task.backend = "codex" THEN "Codex CLI not found"
            ELSE IF task.backend = "kimi" THEN "Kimi CLI not found"
            ELSE IF task.backend = "opencode" THEN "OpenCode CLI not found"
            ELSE "Cursor CLI not found"
      [] OTHER -> "exc"

(* C23: a failed attempt of any kind adds exactly one to retries and sets   *)
(* error to the message of that attempt: for the attempt a worker has in    *)
(* flight, whatever way its adapter call or its verification fails; for     *)
(* every step, retries grows by the number of failures, error changes only  *)
(* with a failure, an unknown backend leaves its message, and a FAILED task *)
(* keeps the message it failed with.                                        *)
C23_FailuresHandledUniformly ==
    /\ [](\A w \in 1..Len(workers) :
            LET o == workers[w].task IN
            /\ workers[w].pc = "exec" =>
                  \A kind \in {k \in FailureKinds : Possible(k, heap[o])} :
                      \A after \in after_adapter(Self, w, o,
                                                 AdapterResult(kind, heap[o]),
                                                 [EnvFailures EXCEPT !.immediate = {}]) :
                          /\ after.heap[o].retries = heap[o].retries + 1
                          /\ after.heap[o].error = Some(ExpectedMessage(kind, heap[o]))
                          /\ after.hist[o].fails = hist[o].fails + 1
            /\ workers[w].pc = "verify" =>
                  \A after \in after_verify(Self, w, o, FALSE,
                                            [EnvFailures EXCEPT !.immediate = {}]) :
                      /\ after.heap[o].retries = heap[o].retries + 1
                      /\ after.heap[o].error = Some("Verification failed")
                      /\ after.hist[o].fails = hist[o].fails + 1)
    /\ [][\A o \in Objects :
            /\ heap'[o].retries - heap[o].retries = hist'[o].fails - hist[o].fails
            /\ hist'[o].fails = hist[o].fails => heap'[o].error = heap[o].error
            /\ hist'[o].fails > hist[o].fails => heap'[o].error # None
            /\ (hist'[o].fails > hist[o].fails
                  /\ heap[o].backend \notin {"codex", "kimi", "cursor", "opencode"}) =>
                  heap'[o].error = Some("Unknown backend: " \o heap[o].backend)
            /\ heap[o].status = FAILED => heap'[o].error = heap[o].error]_vars

\* A task has used up its retries and is FAILED with the message of its
\* last attempt, a timeout.
C23_Witness ==
    \E o \in Objects :
        /\ heap[o].status = FAILED
        /\ heap[o].retries = heap[o].max_retries
        /\ heap[o].error = Some("Timeout after 600s - process killed")

\* Worker w is alive: its coroutine is suspended inside its loop.
Alive(w) == workers[w].pc \in {"loop", "exec", "verify"}

(* C24: no failure of an attempt ends a worker: while the swarm runs, the   *)
(* workers are the n that start created, all alive; and the worker whose    *)
(* attempt failed goes on in the same run to ask for the next task, so it   *)
(* ends the step with a task unless none is ready.                          *)
C24_FailuresStayInsideWorker ==
    /\ [](running =>
            /\ Len(workers) = max_concurrent
            /\ \A w \in 1..Len(workers) : Alive(w))
    /\ [][\A w \in 1..Len(workers) :
            LET o == workers[w].task IN
            (o # 0 /\ hist'[o].fails > hist[o].fails) =>
                /\ Len(workers') = Len(workers)
                /\ Alive(w)'
                /\ workers'[w].task # 0 \/ get_next_task(Self').task = 0]_vars

\* After failed attempts of every task, one of them FAILED for good, both
\* workers are alive and one of them is executing again.
C24_Witness ==
    /\ running
    /\ Len(workers) = 2
    /\ \A o \in Objects : hist[o].fails >= 1
    /\ \E o \in Objects : heap[o].status = FAILED /\ heap[o].error = Some("exc")
    /\ \E w \in 1..Len(workers) : workers[w].pc = "exec"

(* C25: a task becomes COMPLETED only in the step that ends an attempt      *)
(* whose adapter call reported success and, when verify is set, whose       *)
(* verification passed; a verification runs only after a successful         *)
(* adapter call of the same attempt, and a failed verification or a failed  *)
(* adapter call never completes the task.                                   *)
C25_CompletedOnlyAfterSuccess ==
    /\ [](\A w \in 1..Len(workers) :
            LET o == workers[w].task
                env == [EnvFailures EXCEPT !.immediate = {}]
            IN
            /\ workers[w].pc = "verify" =>
                  /\ Truthy(heap[o].verify)
                  /\ heap[o].status = IN_PROGRESS
                  /\ workers[w].result # None
                  /\ ~workers[w].result[1].raised
                  /\ workers[w].result[1].success
                  /\ \A after \in after_verify(Self, w, o, FALSE, env) :
                        after.heap[o].status # COMPLETED
            /\ workers[w].pc = "exec" =>
                  \A kind \in {k \in FailureKinds : Possible(k, heap[o])} :
                      \A after \in after_adapter(Self, w, o,
                                                 AdapterResult(kind, heap[o]), env) :
                          /\ after.heap[o].status # COMPLETED
                          /\ ~(after.workers[w].pc = "verify" /\ after.workers[w].task = o))
    /\ [][\A o \in Objects :
            (heap'[o].status = COMPLETED /\ heap[o].status # COMPLETED) =>
                /\ hist'[o].oks = hist[o].oks + 1
                /\ hist'[o].fails = hist[o].fails
                /\ \E w \in 1..Len(workers) :
                      /\ workers[w].task = o
                      /\ IF Truthy(heap[o].verify)
                         THEN workers[w].pc = "verify" /\ workers[w].result[1].success
                         ELSE workers[w].pc = "exec"]_vars

\* A task with a verify command is COMPLETED after an attempt that failed,
\* and a task without one is COMPLETED too.
C25_Witness ==
    /\ \E o \in Objects :
          /\ Truthy(heap[o].verify)
          /\ heap[o].status = COMPLETED
          /\ hist[o].fails >= 1
    /\ \E o \in Objects : ~Truthy(heap[o].verify) /\ heap[o].status = COMPLETED

\* The submitted tasks named n: those of the tables hp, tn and of the queues qs.
SameNamed(h, t, tn, qs, n) ==
    {o \in {t[i][2] : i \in 1..Len(t)} \cup {tn[i][2] : i \in 1..Len(tn)} \cup QueuedIn(qs) :
        h[o].name = n}

\* The task of S submitted last (objects are numbered in submission order).
Later(S) == CHOOSE o \in S : \A e \in S : e <= o

\* The places <<p, i>> of the queues qs that hold object o.
Places(qs, o) ==
    UNION {{<<p, i>> : i \in {j \in 1..Len(qs[p]) : qs[p][j] = o}} : p \in 0..3}

(* C26: the name table holds, under each name, the task submitted last     *)
(* among the submitted tasks of that name; a step dispatches a task only   *)
(* if, after it, the last-submitted task of each of its dependency names   *)
(* is COMPLETED; a submission puts every task it creates in the queues     *)
(* once and leaves the queued tasks queued; and every ready queued task,   *)
(* whether or not the name table refers to it, is one get_next_task stops  *)
(* at.                                                                     *)
C26_NameTableRefersToLater ==
    /\ [](\A i \in 1..Len(tasks_by_name) :
            tasks_by_name[i][2] =
                Later(SameNamed(heap, tasks, tasks_by_name, queues, tasks_by_name[i][1])))
    /\ [](\A o \in QueuedIn(queues) :
            IsReady(o) => o \in ObjectsAt(queues, Candidates(Self)))
    /\ [][\A o \in Objects :
            hist'[o].dispatches > hist[o].dispatches =>
                \A k \in 1..Len(heap[o].dependencies) :
                    LET S == SameNamed(heap', tasks', tasks_by_name', queues',
                                       heap[o].dependencies[k])
                    IN  S # {} /\ heap'[Later(S)].status = COMPLETED]_vars
    /\ [][Len(heap') > Len(heap) =>
            /\ \A o \in (Len(heap) + 1)..Len(heap') : Cardinality(Places(queues', o)) = 1
            /\ \A o \in Objects :
                  Cardinality(Places(queues', o)) = Cardinality(Places(queues, o))]_vars

\* Two tasks of one name and different ids were submitted and both were
\* dispatched; the later one is COMPLETED, the earlier one is still
\* IN_PROGRESS, and a task depending on the name has been dispatched.
C26_Witness ==
    \E a1, a2, d \in Objects :
        /\ a1 < a2
        /\ heap[a1].name = heap[a2].name
        /\ heap[a1].id # heap[a2].id
        /\ DictGet(tasks_by_name, heap[a1].name) = a2
        /\ hist[a1].dispatches >= 1 /\ hist[a2].dispatches >= 1
        /\ heap[a1].status = IN_PROGRESS
        /\ heap[a2].status = COMPLETED
        /\ \E k \in 1..Len(heap[d].dependencies) : heap[d].dependencies[k] = heap[a1].name
        /\ hist[d].dispatches >= 1

(* C27: a submission changes no field of a task that exists (its status,   *)
(* retries and result among them), leaves the tasks already queued in      *)
(* their queues in the same order, with the new tasks behind them, and     *)
(* leaves the workers and the tasks they hold as they are: this holds of   *)
(* add_tasks for every batch in every reachable state, and of every step   *)
(* that creates tasks.                                                     *)
C27_SubmitOnlyAdds ==
    /\ [](\A batch \in Batches(Decls) :
            LET after == add_tasks(Self, batch) IN
            /\ Len(after.heap) = Len(heap) + Created(batch)
            /\ \A o \in Objects : after.heap[o] = heap[o]
            /\ \A p \in 0..3 : SubSeq(after.queues[p], 1, Len(queues[p])) = queues[p]
            /\ \A o \in QueuedIn(after.queues) \ QueuedIn(queues) : o > Len(heap)
            /\ after.workers = workers
            /\ after.running = running
            /\ after.max_concurrent = max_concurrent)
    /\ [][Len(heap') > Len(heap) =>
            /\ \A o \in Objects : heap'[o] = heap[o] /\ hist'[o] = hist[o]
            /\ \A p \in 0..3 : SubSeq(queues'[p], 1, Len(queues[p])) = queues[p]
            /\ workers' = workers
            /\ running' = running]_vars

\* The only worker holds a task of the lowest priority that it was given
\* once, and behind it a task of a higher priority with no dependencies is
\* queued, not yet dispatched: it was submitted while the first was in
\* progress, which still is.
C27_Witness ==
    /\ running
    /\ Len(workers) = 1
    /\ \E o1, o2 \in Objects :
          /\ o1 < o2
          /\ Holds(1, o1)
          /\ heap[o1].status = IN_PROGRESS
          /\ heap[o1].priority = 3
          /\ hist[o1].dispatches = 1
          /\ heap[o2].priority < 3
          /\ heap[o2].dependencies = <<>>
          /\ heap[o2].status = PENDING
          /\ hist[o2].dispatches = 0
          /\ o2 \in QueuedIn(queues)

\* No two tasks created so far share a name or an id.
DistinctNamesAndIds ==
    \A o1, o2 \in Objects :
        o1 # o2 => heap[o1].name # heap[o2].name /\ heap[o1].id # heap[o2].id

(* C28: in every reachable state of a swarm never cleared whose tasks have *)
(* distinct names and distinct ids, every task created is in the id table  *)
(* under its id; it is in a queue if and only if it is PENDING; a PENDING   *)
(* task has one place in the queues, in the queue of its priority; and     *)
(* every queued object is a task of the id table.                          *)
C28_QueuedIffPending ==
    DistinctNamesAndIds =>
        /\ \A o \in Objects :
              /\ DictGet(tasks, heap[o].id) = o
              /\ o \in QueuedIn(queues) <=> heap[o].status = PENDING
              /\ heap[o].status = PENDING =>
                    /\ Cardinality(Places(queues, o)) = 1
                    /\ \E i \in 1..Len(queues[heap[o].priority]) :
                          queues[heap[o].priority][i] = o
        /\ QueuedIn(queues) \subseteq IdTableTasks

\* Two tasks of distinct names and ids: one failed, was queued again and
\* taken again, and is IN_PROGRESS and in no queue; the other, never
\* dispatched, is PENDING and queued.
C28_Witness ==
    /\ DistinctNamesAndIds
    /\ \E o1, o2 \in Objects :
          /\ heap[o1].status = IN_PROGRESS
          /\ hist[o1].fails >= 1
          /\ hist[o1].dispatches >= 2
          /\ o1 \notin QueuedIn(queues)
          /\ heap[o2].status = PENDING
          /\ hist[o2].dispatches = 0
          /\ o2 \in QueuedIn(queues)

(* C29: in every reachable state every task has max_retries at its default *)
(* and 0 <= retries <= max_retries; retries counts its failed attempts;    *)
(* it has been dispatched at most max_retries times, and at most once more *)
(* than it failed; and a step dispatches a task only if it was dispatched  *)
(* fewer than max_retries times before.                                    *)
C29_RetryBudgetBoundsWork ==
    /\ [](\A o \in Objects :
            /\ heap[o].max_retries = DefaultMaxRetries
            /\ 0 <= heap[o].retries
            /\ heap[o].retries <= heap[o].max_retries
            /\ heap[o].retries = hist[o].fails
            /\ hist[o].dispatches <= heap[o].max_retries
            /\ hist[o].dispatches <= hist[o].fails + 1)
    /\ [][\A o \in Objects :
            hist'[o].dispatches > hist[o].dispatches =>
                /\ hist[o].dispatches < heap[o].max_retries
                /\ heap[o].retries < heap[o].max_retries]_vars

\* A task has used its budget: dispatched max_retries times, failed each
\* time, retries = max_retries, FAILED and in no queue.
C29_Witness ==
    \E o \in Objects :
        /\ hist[o].dispatches = heap[o].max_retries
        /\ hist[o].fails = heap[o].max_retries
        /\ heap[o].retries = heap[o].max_retries
        /\ heap[o].status = FAILED
        /\ o \notin QueuedIn(queues)

(* C30: in every reachable state, for every task: result is set if and    *)
(* only if its status is COMPLETED; completed_at is set if and only if its *)
(* status is COMPLETED or FAILED; a FAILED task has error set; and a task  *)
(* that is IN_PROGRESS, COMPLETED or FAILED has started_at set.            *)
C30_OutcomeFieldsAgreeWithStatus ==
    \A o \in Objects :
        /\ heap[o].result # None <=> heap[o].status = COMPLETED
        /\ heap[o].completed_at # None <=> heap[o].status \in {COMPLETED, FAILED}
        /\ heap[o].status = FAILED => heap[o].error # None
        /\ heap[o].status \in {IN_PROGRESS, COMPLETED, FAILED} => heap[o].started_at # None

\* One task is IN_PROGRESS again after a failed attempt, with error and
\* started_at set and neither result nor completed_at; another is FAILED.
C30_Witness ==
    \E o1, o2 \in Objects :
        /\ heap[o1].status = IN_PROGRESS
        /\ hist[o1].fails >= 1
        /\ heap[o1].error # None
        /\ heap[o1].started_at # None
        /\ heap[o1].result = None
        /\ heap[o1].completed_at = None
        /\ heap[o2].status = FAILED
        /\ heap[o2].error # None
        /\ heap[o2].completed_at # None

(* C31: in a started pool that is neither stopped nor cleared and whose    *)
(* adapter calls and verifications all return, every task whose            *)
(* dependencies are all COMPLETED is eventually COMPLETED or FAILED,        *)
(* whatever the outcomes of its attempts; and no task is ever dispatched   *)
(* more than max_retries times.                                            *)
C31_BoundedRetryTerminates ==
    /\ \A o \in 1..MaxBatch :
          (o <= Len(heap) /\ DepsCompleted(o))
              ~> (o <= Len(heap) /\ heap[o].status \in {COMPLETED, FAILED})
    /\ [](\A o \in Objects : hist[o].dispatches <= heap[o].max_retries)

\* A task was COMPLETED after a failed attempt, and the task depending on it
\* failed max_retries times after that and is FAILED.
C31_Witness ==
    \E a, b \in Objects :
        /\ heap[a].status = COMPLETED
        /\ hist[a].fails >= 1
        /\ heap[b].dependencies = <<heap[a].name>>
        /\ heap[b].status = FAILED
        /\ hist[b].fails = heap[b].max_retries

====
